---- MODULE Spec2Model ----
(***************************************************************************)
(* State-machine model of BenchmarkRunner (src/comparador.js): the session *)
(* this.results, one runBenchmark call stepped statement by statement, and *)
(* showSummary.  The unit under test, the file system, the monotonic clock *)
(* and the process memory are the environment: their outcomes are chosen   *)
(* nondeterministically where the code consults them.  Calls are made one  *)
(* at a time, each awaited before the next, as exemploDeUso makes them.    *)
(***************************************************************************)
EXTENDS Integers, Sequences, FiniteSets

(* ------------------------------ bounds -------------------------------- *)

\* runBenchmark calls started in one session
MaxCalls == 2

\* longest duration, in clock ticks, of one execution of a unit
MaxElapsed == 2

\* largest memory figure, in abstract units, the process reports
MaxHeap == 2

(* --------------------------- the environment --------------------------- *)

\* the names and artifact paths callers pass (exemploDeUso passes these)
Names == {"Estruturado", "POO"}

Paths == {"./estruturado.js", "./poo.js"}

\* process.memoryUsage(): resident set, heap reserved, heap in use.  The
\* three figures are taken to move together, one level h of memory use
MemorySnapshots ==
    {[rss |-> h, heapTotal |-> h, heapUsed |-> h] : h \in 1..MaxHeap}

\* the memory in use when the session is created
InitialMemory == [rss |-> 1, heapTotal |-> 1, heapUsed |-> 1]

\* a local that has not been assigned yet
Unset == [unset |-> TRUE]

\* JavaScript null
Null == [null |-> TRUE]

\* text of the artifacts, as lines of characters ("c" a visible character,
\* " " white space); the lines are what split('\n') yields
FileContent(p) ==
    IF p = "./estruturado.js"
    THEN << <<"c", "c">>, <<>>, <<" ", "c">> >>
    ELSE << <<"c">>, <<" ">>, <<"c", " ">>, <<>> >>

VARIABLES
    results,       \* this.results
    requireCache,  \* require.cache: the resolved paths with a cached module
    clock,         \* process.hrtime.bigint(), in ticks since the call began
                   \* (the code uses only differences of two readings)
    mem,           \* what process.memoryUsage() returns now
    evals,         \* per path: times the unit's top-level code was run
    calls,         \* runBenchmark calls started so far
    pc,            \* position of the call in progress ("idle": none)
    name,          \* runBenchmark's parameter name
    filePath,      \* runBenchmark's parameter filePath
    startTime,     \* locals of runBenchmark
    startMemory,
    endTime,
    endMemory,
    fileStats,
    trace,         \* statements the current (or last) call has executed
    before,        \* this.results when the current (or last) call started
    outcomes,      \* per returned call: its path and how it ended
    summary,       \* what showSummary reported since the last call started
    driver,        \* position of exemploDeUso ("off": the module is only required)
    exit,          \* whether the process has ended, and how
    interleaved    \* a run or the summary was started while a run was in progress

vars == <<results, requireCache, clock, mem, evals, calls, pc, name, filePath,
          startTime, startMemory, endTime, endMemory, fileStats, trace,
          before, outcomes, summary, driver, exit, interleaved>>

\* what belongs to the runner and its environment
runner == <<results, requireCache, clock, mem, evals, calls, pc, name, filePath,
            startTime, startMemory, endTime, endMemory, fileStats, trace,
            before, outcomes, summary>>

\* what belongs to the default driver and the process around it
dvars == <<driver, exit, interleaved>>

locals == <<startTime, startMemory, endTime, endMemory, fileStats>>

world == <<requireCache, clock, mem, evals>>

(* ------------------------------ helpers -------------------------------- *)

\* path.basename
Basename(p) == IF p = "./estruturado.js" THEN "estruturado.js" ELSE "poo.js"

\* linha.trim() === ''
IsBlank(linha) == \A i \in 1..Len(linha) : linha[i] = " "

RECURSIVE SumLen(_)
SumLen(linhas) ==
    IF linhas = <<>> THEN 0 ELSE Len(Head(linhas)) + SumLen(Tail(linhas))

\* processFileContent: the statistics of a text given as its lines
ProcessFileContent(linhas, arquivo) ==
    LET vazias  == Cardinality({i \in 1..Len(linhas) : IsBlank(linhas[i])})
        chars   == SumLen(linhas) + (Len(linhas) - 1)
    IN  [arquivo        |-> Basename(arquivo),
         totalLinhas    |-> Len(linhas),
         linhasCodigo   |-> Len(linhas) - vazias,
         linhasVazias   |-> vazias,
         caracteres     |-> chars,
         tamanhoArquivo |-> chars]

\* memoryDiff: end minus start, field by field
MemoryDiff(s, e) ==
    [rss       |-> e.rss - s.rss,
     heapTotal |-> e.heapTotal - s.heapTotal,
     heapUsed  |-> e.heapUsed - s.heapUsed]

\* Number(endTime - startTime) / 1000000: kept in ticks, the unit of the
\* clock; the division by a constant changes neither the order of two
\* durations nor their quotient
ExecutionTime(s, e) == e - s

\* a faulty variant of ClearCache: the cache entry is left in place
ClearCacheKept(cache, p) == cache

\* delete require.cache[require.resolve(path.resolve(filePath))]
ClearCache(cache, p) == cache \ {p}

\* a faulty variant of After: the end snapshot is taken before the end timestamp
AfterMemoryFirst(label) ==
    CASE label = "access"      -> "startTime"
      [] label = "startTime"   -> "startMemory"
      [] label = "startMemory" -> "clearCache"
      [] label = "clearCache"  -> "require"
      [] label = "require"     -> "endMemory"
      [] label = "endMemory"   -> "endTime"
      [] label = "endTime"     -> "analyze"
      [] label = "analyze"     -> "push"
      [] OTHER                 -> "idle"

\* the statement that follows `label` inside the try block of runBenchmark
After(label) ==
    CASE label = "access"      -> "startTime"
      [] label = "startTime"   -> "startMemory"
      [] label = "startMemory" -> "clearCache"
      [] label = "clearCache"  -> "require"
      [] label = "require"     -> "endTime"
      [] label = "endTime"     -> "endMemory"
      [] label = "endMemory"   -> "analyze"
      [] label = "analyze"     -> "push"
      [] OTHER                 -> "idle"

\* a faulty variant of OnThrow: the try block ends after fs.access
OnThrowOutsideTry(label) == IF label = "access" THEN "catch" ELSE "rejected"

\* a faulty variant of OnThrow: fs.access is not awaited, its rejection is lost
OnThrowAccessIgnored(label) ==
    IF label = "access" THEN After("access") ELSE "catch"

\* where control goes when the statement at `label` throws or rejects: the
\* try block encloses every statement of runBenchmark after the header
OnThrow(label) == "catch"

\* a faulty variant of AfterReadError: analyzeFile has no catch of its own
ReadErrorPropagates == "catch"

\* where runBenchmark continues when readFileSync throws in analyzeFile:
\* analyzeFile catches, warns and returns null, so the await completes
AfterReadError == After("analyze")

\* a faulty variant of Pushed: unshift instead of push
Unshifted(r, e) == <<e>> \o r

\* this.results.push(e)
Pushed(r, e) == Append(r, e)

Last(s) == s[Len(s)]

(* ------------------------------- Init ---------------------------------- *)

NoSummary == [status |-> "none"]

\* the process has not ended
Running == [status |-> "running"]

Init ==
    /\ results = <<>>
    /\ requireCache = {}
    /\ clock = 0
    /\ mem = InitialMemory
    /\ evals = [p \in Paths |-> 0]
    /\ calls = 0
    /\ pc = "idle"
    /\ name = "Estruturado"
    /\ filePath = "./estruturado.js"
    /\ startTime = 0
    /\ startMemory = Unset
    /\ endTime = 0
    /\ endMemory = Unset
    /\ fileStats = Unset
    /\ trace = <<>>
    /\ before = <<>>
    /\ outcomes = <<>>
    /\ summary = NoSummary
    /\ driver = "off"
    /\ exit = Running
    /\ interleaved = FALSE

(* --------------------------- runBenchmark ------------------------------ *)

\* the call: console.log of the header, then await fs.access(filePath)
RunBenchmark(n, p) ==
    /\ pc = "idle"
    /\ calls < MaxCalls
    /\ calls' = calls + 1
    /\ name' = n
    /\ filePath' = p
    /\ pc' = "access"
    /\ trace' = <<>>
    /\ before' = results
    /\ clock' = 0
    /\ startTime' = 0
    /\ startMemory' = Unset
    /\ endTime' = 0
    /\ endMemory' = Unset
    /\ fileStats' = Unset
    /\ summary' = NoSummary
    /\ UNCHANGED <<results, requireCache, mem, evals, outcomes>>

\* fs.access resolves: the artifact exists
AccessResolves ==
    /\ pc = "access"
    /\ pc' = After("access")
    /\ trace' = Append(trace, "access")
    /\ UNCHANGED <<results, world, calls, name, filePath, locals, before, outcomes, summary>>
    /\ UNCHANGED dvars

\* fs.access rejects: the artifact does not exist
AccessRejects ==
    /\ pc = "access"
    /\ pc' = OnThrow("access")
    /\ trace' = Append(trace, "accessFailed")
    /\ UNCHANGED <<results, world, calls, name, filePath, locals, before, outcomes, summary>>
    /\ UNCHANGED dvars

\* const startTime = process.hrtime.bigint()
HrtimeStart ==
    /\ pc = "startTime"
    /\ startTime' = clock
    /\ pc' = After("startTime")
    /\ trace' = Append(trace, "startTime")
    /\ UNCHANGED <<results, world, calls, name, filePath, startMemory, endTime,
                   endMemory, fileStats, before, outcomes, summary>>
    /\ UNCHANGED dvars

\* const startMemory = process.memoryUsage()
MemoryUsageStart ==
    /\ pc = "startMemory"
    /\ startMemory' = mem
    /\ pc' = After("startMemory")
    /\ trace' = Append(trace, "startMemory")
    /\ UNCHANGED <<results, world, calls, name, filePath, startTime, endTime,
                   endMemory, fileStats, before, outcomes, summary>>
    /\ UNCHANGED dvars

\* console.time, then the cache entry of the resolved path is deleted
ClearRequireCache ==
    /\ pc = "clearCache"
    /\ requireCache' = ClearCache(requireCache, filePath)
    /\ pc' = After("clearCache")
    /\ trace' = Append(trace, "clearCache")
    /\ UNCHANGED <<results, clock, mem, evals, calls, name, filePath, locals,
                   before, outcomes, summary>>
    /\ UNCHANGED dvars

\* require.resolve throws: the path exists but is no loadable module
ResolveThrows ==
    /\ pc = "clearCache"
    /\ pc' = OnThrow("clearCache")
    /\ trace' = Append(trace, "resolveFailed")
    /\ UNCHANGED <<results, world, calls, name, filePath, locals, before, outcomes, summary>>
    /\ UNCHANGED dvars

\* require(path): a cached module is returned as it is; otherwise the unit's
\* top-level code runs to completion, taking time and changing the memory
\* in use, and the module is cached
RequireCompletes ==
    /\ pc = "require"
    /\ IF filePath \in requireCache
       THEN /\ trace' = Append(trace, "cached")
            /\ UNCHANGED world
       ELSE /\ trace' = Append(trace, "unit")
            /\ evals' = [evals EXCEPT ![filePath] = @ + 1]
            /\ requireCache' = requireCache \cup {filePath}
            /\ \E d \in 1..MaxElapsed : clock' = clock + d
            /\ mem' \in MemorySnapshots
    /\ pc' = After("require")
    /\ UNCHANGED <<results, calls, name, filePath, locals, before, outcomes, summary>>
    /\ UNCHANGED dvars

\* require(path): the unit's top-level code throws part-way; node drops the
\* module from the cache again
RequireThrows ==
    /\ pc = "require"
    /\ filePath \notin requireCache
    /\ trace' = Append(trace, "unitThrew")
    /\ evals' = [evals EXCEPT ![filePath] = @ + 1]
    /\ \E d \in 1..MaxElapsed : clock' = clock + d
    /\ mem' \in MemorySnapshots
    /\ pc' = OnThrow("require")
    /\ UNCHANGED <<results, requireCache, calls, name, filePath, locals, before,
                   outcomes, summary>>
    /\ UNCHANGED dvars

\* console.timeEnd, then const endTime = process.hrtime.bigint()
HrtimeEnd ==
    /\ pc = "endTime"
    /\ endTime' = clock
    /\ pc' = After("endTime")
    /\ trace' = Append(trace, "endTime")
    /\ UNCHANGED <<results, world, calls, name, filePath, startTime, startMemory,
                   endMemory, fileStats, before, outcomes, summary>>
    /\ UNCHANGED dvars

\* const endMemory = process.memoryUsage(); the metrics are computed from
\* the locals when the entry is pushed, and showMemoryUsage only prints
MemoryUsageEnd ==
    /\ pc = "endMemory"
    /\ endMemory' = mem
    /\ pc' = After("endMemory")
    /\ trace' = Append(trace, "endMemory")
    /\ UNCHANGED <<results, world, calls, name, filePath, startTime, startMemory,
                   endTime, fileStats, before, outcomes, summary>>
    /\ UNCHANGED dvars

\* analyzeFile: readFileSync succeeds and the text is analysed
AnalyzeFileReads ==
    /\ pc = "analyze"
    /\ fileStats' = ProcessFileContent(FileContent(filePath), filePath)
    /\ pc' = After("analyze")
    /\ trace' = Append(trace, "analyze")
    /\ UNCHANGED <<results, world, calls, name, filePath, startTime, startMemory,
                   endTime, endMemory, before, outcomes, summary>>
    /\ UNCHANGED dvars

\* analyzeFile: readFileSync throws; the catch warns and returns null
AnalyzeFileFails ==
    /\ pc = "analyze"
    /\ fileStats' = Null
    /\ pc' = AfterReadError
    /\ trace' = Append(trace, "warn")
    /\ UNCHANGED <<results, world, calls, name, filePath, startTime, startMemory,
                   endTime, endMemory, before, outcomes, summary>>
    /\ UNCHANGED dvars

\* the entry runBenchmark assembles from its locals
Entry ==
    [name          |-> name,
     executionTime |-> ExecutionTime(startTime, endTime),
     memory        |-> endMemory,
     memoryDiff    |-> MemoryDiff(startMemory, endMemory),
     fileStats     |-> fileStats]

\* this.results.push({...}), and the call returns
Push ==
    /\ pc = "push"
    /\ results' = Pushed(results, Entry)
    /\ pc' = After("push")
    /\ trace' = Append(trace, "push")
    /\ outcomes' = Append(outcomes, [path |-> filePath, outcome |-> "recorded"])
    /\ UNCHANGED <<world, calls, name, filePath, locals, before, summary>>
    /\ UNCHANGED dvars

\* catch (error): two console.error lines, and the call returns
Catch ==
    /\ pc = "catch"
    /\ pc' = "idle"
    /\ trace' = Append(trace, "error")
    /\ outcomes' = Append(outcomes, [path |-> filePath, outcome |-> Last(trace)])
    /\ UNCHANGED <<results, world, calls, name, filePath, locals, before, summary>>
    /\ UNCHANGED dvars

(* ---------------------------- showSummary ------------------------------ *)

\* a faulty variant of Less: on equal keys the earlier entry is kept
LessOrEqual(a, b) == a <= b

\* prev.key < curr.key, the test of both reduce callbacks
Less(a, b) == a < b

\* Array.prototype.reduce without an initial value over keys[i..]: prev is
\* the index of the entry carried so far
RECURSIVE ReduceMin(_, _, _)
ReduceMin(keys, i, prev) ==
    IF i > Len(keys)
    THEN prev
    ELSE ReduceMin(keys, i + 1, IF Less(keys[prev], keys[i]) THEN prev ELSE i)

ExecutionTimes(r) == [i \in 1..Len(r) |-> r[i].executionTime]

HeapsUsed(r) == [i \in 1..Len(r) |-> r[i].memory.heapUsed]

\* (a / b).toFixed(2) for a, b >= 0: the quotient rounded to the nearest
\* hundredth, a half rounding up, kept as a count of hundredths; 0/0 is NaN
\* and a/0 is Infinity, which toFixed prints as "NaN" and "Infinity"
ToFixed2(a, b) ==
    IF b = 0
    THEN IF a = 0 THEN [kind |-> "NaN"] ELSE [kind |-> "Infinity"]
    ELSE [kind |-> "number", hundredths |-> (200 * a + b) \div (2 * b)]

\* the body of showSummary after its guard: reduce throws a TypeError on an
\* empty array; otherwise the two winners and every entry's ratios
Compare(r) ==
    IF r = <<>>
    THEN [status |-> "TypeError"]
    ELSE LET fastest == ReduceMin(ExecutionTimes(r), 2, 1)
             mostMemoryEfficient == ReduceMin(HeapsUsed(r), 2, 1)
         IN  [status              |-> "compared",
              fastest             |-> fastest,
              mostMemoryEfficient |-> mostMemoryEfficient,
              fastestName         |-> r[fastest].name,
              efficientName       |-> r[mostMemoryEfficient].name,
              speedRatio          |-> [i \in 1..Len(r) |->
                  ToFixed2(r[i].executionTime, r[fastest].executionTime)],
              memoryRatio         |-> [i \in 1..Len(r) |->
                  ToFixed2(r[i].memory.heapUsed,
                           r[mostMemoryEfficient].memory.heapUsed)]]

\* a faulty variant of Report: the guard on an empty session is missing
ReportUnguarded(r) == Compare(r)

\* what showSummary prints: 'Nenhum benchmark foi executado.' for an empty
\* session, the comparison otherwise
Report(r) ==
    IF Len(r) = 0 THEN [status |-> "empty"] ELSE Compare(r)

RECURSIVE InsertByTime(_, _)
InsertByTime(e, sorted) ==
    IF sorted = <<>> THEN <<e>>
    ELSE IF e.executionTime < Head(sorted).executionTime
         THEN <<e>> \o sorted
         ELSE <<Head(sorted)>> \o InsertByTime(e, Tail(sorted))

RECURSIVE SortByTime(_)
SortByTime(r) ==
    IF r = <<>> THEN <<>> ELSE InsertByTime(Head(r), SortByTime(Tail(r)))

\* a faulty variant of ResultsAfterSummary: the fastest is found by sorting
\* this.results in place
ResultsSortedInPlace(r) == SortByTime(r)

\* this.results after showSummary: reduce and forEach only read it
ResultsAfterSummary(r) == r

\* showSummary(), called between two runs
ShowSummary ==
    /\ pc = "idle"
    /\ summary' = Report(results)
    /\ results' = ResultsAfterSummary(results)
    /\ UNCHANGED <<world, calls, pc, name, filePath, locals, trace, before,
                   outcomes>>

Next ==
    \/ \E n \in Names, p \in Paths : RunBenchmark(n, p) /\ UNCHANGED dvars
    \/ AccessResolves
    \/ AccessRejects
    \/ HrtimeStart
    \/ MemoryUsageStart
    \/ ClearRequireCache
    \/ ResolveThrows
    \/ RequireCompletes
    \/ RequireThrows
    \/ HrtimeEnd
    \/ MemoryUsageEnd
    \/ AnalyzeFileReads
    \/ AnalyzeFileFails
    \/ Push
    \/ Catch
    \/ ShowSummary /\ UNCHANGED dvars

Spec == Init /\ [][Next]_vars

(* ------------------ showSummary on any session ----------------------- *)

\* the entries the data model allows: a non-negative duration and
\* non-negative memory figures, zero included
DataModelEntries ==
    {[name          |-> n,
      executionTime |-> t,
      memory        |-> [rss |-> h, heapTotal |-> h, heapUsed |-> h],
      memoryDiff    |-> [rss |-> 0, heapTotal |-> 0, heapUsed |-> 0],
      fileStats     |-> Null] :
        n \in Names, t \in 0..MaxElapsed, h \in 0..MaxHeap}

Sessions == UNION {[1..n -> DataModelEntries] : n \in 0..MaxCalls}

\* a runner whose session holds any entries of the data model, idle
InitSummary ==
    /\ results \in Sessions
    /\ requireCache = {}
    /\ clock = 0
    /\ mem = InitialMemory
    /\ evals = [p \in Paths |-> 0]
    /\ calls = 0
    /\ pc = "idle"
    /\ name = "Estruturado"
    /\ filePath = "./estruturado.js"
    /\ startTime = 0
    /\ startMemory = Unset
    /\ endTime = 0
    /\ endMemory = Unset
    /\ fileStats = Unset
    /\ trace = <<>>
    /\ before = <<>>
    /\ outcomes = <<>>
    /\ summary = NoSummary
    /\ driver = "off"
    /\ exit = Running
    /\ interleaved = FALSE

NextSummary == ShowSummary /\ UNCHANGED dvars

SpecSummary == InitSummary /\ [][NextSummary]_vars

(* ---------------------- exemploDeUso, the driver ---------------------- *)

\* the process's exit status when the event loop runs empty: the module
\* never assigns process.exitCode and never calls process.exit
ExitCode == 0

\* a faulty variant of Settled: the call is not awaited, the driver goes on
\* as soon as the call's synchronous part has returned
NotAwaited == pc \in {"idle", "access"}

\* await benchmark.runBenchmark(...): the driver resumes once the call's
\* promise has settled, which is when the call has returned
Settled == pc = "idle"

\* benchmark.runBenchmark(n, p) as the driver calls it
StartRun(n, p) ==
    IF pc = "idle"
    THEN RunBenchmark(n, p) /\ UNCHANGED interleaved
    ELSE interleaved' = TRUE /\ UNCHANGED runner

\* benchmark.showSummary() as the driver calls it
StartSummary ==
    IF pc = "idle"
    THEN ShowSummary /\ UNCHANGED interleaved
    ELSE interleaved' = TRUE /\ UNCHANGED runner

\* the process starts with the module as its main module: the runner is
\* constructed and exemploDeUso is about to run
InitDriver ==
    /\ results = <<>>
    /\ requireCache = {}
    /\ clock = 0
    /\ mem = InitialMemory
    /\ evals = [p \in Paths |-> 0]
    /\ calls = 0
    /\ pc = "idle"
    /\ name = "Estruturado"
    /\ filePath = "./estruturado.js"
    /\ startTime = 0
    /\ startMemory = Unset
    /\ endTime = 0
    /\ endMemory = Unset
    /\ fileStats = Unset
    /\ trace = <<>>
    /\ before = <<>>
    /\ outcomes = <<>>
    /\ summary = NoSummary
    /\ driver = "start"
    /\ exit = Running
    /\ interleaved = FALSE

\* the opening console.log, then the first call, up to its await
DriverStart ==
    /\ driver = "start"
    /\ StartRun("Estruturado", "./estruturado.js")
    /\ driver' = "await1"
    /\ UNCHANGED exit

\* the first call has settled: the pause of 100 ms is set up and awaited
DriverPause ==
    /\ driver = "await1"
    /\ Settled
    /\ driver' = "pause"
    /\ UNCHANGED <<runner, exit, interleaved>>

\* the timer fires: the second call, up to its await
DriverSecondRun ==
    /\ driver = "pause"
    /\ StartRun("POO", "./poo.js")
    /\ driver' = "await2"
    /\ UNCHANGED exit

\* the second call has settled: showSummary, the closing console.log, and
\* the promise of exemploDeUso resolves
DriverSummary ==
    /\ driver = "await2"
    /\ Settled
    /\ StartSummary
    /\ driver' = "resolved"
    /\ UNCHANGED exit

\* a statement of exemploDeUso that no try block encloses throws (the
\* console, the timer or a callee fails): the promise of exemploDeUso rejects
DriverThrows ==
    /\ \/ driver \in {"start", "pause"}
       \/ driver \in {"await1", "await2"} /\ Settled
    /\ driver' = "rejected"
    /\ UNCHANGED <<runner, exit, interleaved>>

\* nothing is left to run after exemploDeUso resolved: the process ends
ExitAfterResolve ==
    /\ driver = "resolved"
    /\ exit = Running
    /\ exit' = [status |-> "exited", code |-> ExitCode, errorLogged |-> FALSE]
    /\ UNCHANGED <<runner, driver, interleaved>>

\* .catch(console.error): the rejection is handled by printing the error,
\* and the process ends when nothing is left to run
ExitAfterCatch ==
    /\ driver = "rejected"
    /\ exit = Running
    /\ exit' = [status |-> "exited", code |-> ExitCode, errorLogged |-> TRUE]
    /\ UNCHANGED <<runner, driver, interleaved>>

NextDriver ==
    \/ DriverStart
    \/ DriverPause
    \/ DriverSecondRun
    \/ DriverSummary
    \/ DriverThrows
    \/ ExitAfterResolve
    \/ ExitAfterCatch
    \/ AccessResolves
    \/ AccessRejects
    \/ HrtimeStart
    \/ MemoryUsageStart
    \/ ClearRequireCache
    \/ ResolveThrows
    \/ RequireCompletes
    \/ RequireThrows
    \/ HrtimeEnd
    \/ MemoryUsageEnd
    \/ AnalyzeFileReads
    \/ AnalyzeFileFails
    \/ Push
    \/ Catch

SpecDriver == InitDriver /\ [][NextDriver]_vars

(* ------------------------- claims on runBenchmark ---------------------- *)

Has(ev) == \E i \in 1..Len(trace) : trace[i] = ev

IsPrefix(s, t) == Len(s) <= Len(t) /\ SubSeq(t, 1, Len(s)) = s

\* the last call has returned
Returned == pc = "idle" /\ calls > 0

Recorded == {k \in 1..Len(outcomes) : outcomes[k].outcome = "recorded"}

C2_MissingPathAppendsNothing ==
    Has("accessFailed") =>
        /\ Len(results) = Len(before)
        /\ results = before
        /\ ~Has("unit") /\ ~Has("unitThrew") /\ ~Has("cached")
        /\ trace \in {<<"accessFailed">>, <<"accessFailed", "error">>}

\* C2 witness: on a non-empty session a call on a missing path has returned.
C2_Witness ==
    /\ Returned
    /\ Has("accessFailed")
    /\ Len(before) > 0
    /\ Len(results) = Len(before)

\* what C3 says of a single state
C3_StateInv ==
    /\ calls = 0 => results = <<>>
    /\ pc # "idle" => results = before
    /\ Returned =>
          IF Has("unit")
          THEN /\ Len(results) = Len(before) + 1
               /\ IsPrefix(before, results)
               /\ Last(results).name = name
          ELSE results = before

\* C3: the session is append-only.  It is empty before the first call; no
\* step removes, replaces or reorders an entry (results is a prefix of its
\* next value); a returned call whose unit ran to completion has extended
\* results by exactly one entry carrying the call's name, any other
\* returned call by none, and a call still in progress by none yet.
C3_AppendOnly ==
    [](C3_StateInv) /\ [][IsPrefix(results, results')]_vars

\* C3 witness: two entries with different names, appended in call order,
\* followed by nothing else.
C3_Witness ==
    /\ Returned
    /\ Len(results) = 2
    /\ Len(before) = 1
    /\ results[1].name # results[2].name

\* calls on path p that got as far as running the unit's top-level code
Evaluations(p) ==
    Cardinality({k \in 1..Len(outcomes) :
        outcomes[k].path = p /\ outcomes[k].outcome \in {"recorded", "unitThrew"}})
    + (IF pc # "idle" /\ filePath = p /\ (Has("unit") \/ Has("unitThrew") \/ Has("cached"))
       THEN 1 ELSE 0)

\* C4: every call that reaches require runs the unit's top-level code once
\* more, also on a path loaded before in the session: per path the number
\* of evaluations is the number of such calls, and require never returns a
\* cached module.
C4_FreshEvaluationPerCall ==
    /\ ~Has("cached")
    /\ \A p \in Paths : evals[p] = Evaluations(p)

\* C4 witness: the same path was run to completion twice and evaluated twice.
C4_Witness ==
    \E p \in Paths :
        /\ evals[p] = 2
        /\ Cardinality({k \in 1..Len(outcomes) :
               outcomes[k].path = p /\ outcomes[k].outcome = "recorded"}) = 2

IsMeasurement(ev) ==
    ev \in {"startTime", "startMemory", "unit", "endTime", "endMemory"}

Measurements == SelectSeq(trace, IsMeasurement)

\* C5 as stated: the 'before' snapshot, then the start timestamp, then the
\* unit, then the end timestamp, then the 'after' snapshot.
C5_AsStated ==
    /\ IsPrefix(Measurements,
                <<"startMemory", "startTime", "unit", "endTime", "endMemory">>)
    /\ Has("push") =>
          Measurements = <<"startMemory", "startTime", "unit", "endTime", "endMemory">>

\* C5 as amended: the start timestamp is recorded first, then the 'before'
\* snapshot is taken, then the unit runs to completion, then the end
\* timestamp is recorded, then the 'after' snapshot is taken; a recorded run
\* has all five, and its timestamps and snapshots are those read then.
C5_MeasurementOrder ==
    /\ IsPrefix(Measurements,
                <<"startTime", "startMemory", "unit", "endTime", "endMemory">>)
    /\ Has("push") =>
          /\ Measurements = <<"startTime", "startMemory", "unit", "endTime", "endMemory">>
          /\ startTime < endTime
          /\ endTime = clock /\ endMemory = mem

\* C5 witness: a run has been measured and recorded.
C5_Witness == Returned /\ Has("push") /\ Len(Measurements) = 5

\* C6: when the unit ran but the text cannot be read afterwards, the call
\* does not fail: exactly one entry is appended, with the measured time,
\* snapshot and delta and with fileStats null.
C6_UnreadableStillRecorded ==
    Has("warn") =>
        /\ pc \in {"push", "idle"}
        /\ Has("unit")
        /\ fileStats = Null
        /\ pc = "push" => results = before
        /\ pc = "idle" =>
              /\ results = Append(before,
                     [name          |-> name,
                      executionTime |-> endTime - startTime,
                      memory        |-> endMemory,
                      memoryDiff    |-> MemoryDiff(startMemory, endMemory),
                      fileStats     |-> Null])
              /\ Last(trace) = "push"
              /\ Last(outcomes).outcome = "recorded"

\* C6 witness: such a run has returned, after a change of the memory in use.
C6_Witness ==
    /\ Returned
    /\ Has("warn")
    /\ Len(results) = Len(before) + 1
    /\ Last(results).fileStats = Null
    /\ Last(results).memoryDiff.heapUsed # 0

(* -------------------------- claims on showSummary ---------------------- *)

\* the indices whose key is a minimum of keys
MinIndices(keys) ==
    {i \in 1..Len(keys) : \A j \in 1..Len(keys) : keys[i] <= keys[j]}

FirstOf(S) == CHOOSE i \in S : \A j \in S : i <= j

LastOf(S) == CHOOSE i \in S : \A j \in S : j <= i

\* C7 as stated: the fastest is the entry of minimum executionTime, the
\* most memory-efficient the entry of minimum memory.heapUsed, and of
\* several entries at a minimum the first in session order is picked.
C7_AsStated ==
    summary.status = "compared" =>
        /\ summary.fastest = FirstOf(MinIndices(ExecutionTimes(results)))
        /\ summary.mostMemoryEfficient = FirstOf(MinIndices(HeapsUsed(results)))

\* C7 as amended: the fastest is the entry of minimum executionTime, the
\* most memory-efficient the entry of minimum memory.heapUsed, and of
\* several entries at a minimum the last in session order is picked; the
\* names printed are those entries' names.
C7_MinimumLastOnTies ==
    summary.status = "compared" =>
        /\ summary.fastest = LastOf(MinIndices(ExecutionTimes(results)))
        /\ summary.mostMemoryEfficient = LastOf(MinIndices(HeapsUsed(results)))
        /\ summary.fastestName = results[summary.fastest].name
        /\ summary.efficientName = results[summary.mostMemoryEfficient].name

\* C7 witness: a summary of two entries that tie in time and in heap used.
C7_Witness ==
    /\ summary.status = "compared"
    /\ Len(results) = 2
    /\ Cardinality(MinIndices(ExecutionTimes(results))) = 2
    /\ Cardinality(MinIndices(HeapsUsed(results))) = 2
    /\ summary.fastest = 2

AtLeastOne(ratio) == ratio.kind = "number" /\ ratio.hundredths >= 100

ExactlyOne(ratio) == ratio.kind = "number" /\ ratio.hundredths = 100

\* C8: for a non-empty session of entries with non-negative executionTime
\* and heapUsed, zero included, every speed ratio and memory ratio is at
\* least 1.00 and the ratios of the two winners are exactly 1.00.
C8_RatiosAtLeastOne ==
    summary.status = "compared" =>
        /\ \A i \in 1..Len(results) :
              AtLeastOne(summary.speedRatio[i]) /\ AtLeastOne(summary.memoryRatio[i])
        /\ ExactlyOne(summary.speedRatio[summary.fastest])
        /\ ExactlyOne(summary.memoryRatio[summary.mostMemoryEfficient])

\* C9: showSummary on an empty session reports that no benchmark was
\* executed and nothing else: no error, no winner, no ratio; the session
\* stays empty and the runner idle.  Only an empty session gets that report.
C9_EmptySessionReported ==
    /\ (results = <<>> /\ summary # NoSummary) =>
          summary = [status |-> "empty"] /\ pc = "idle"
    /\ summary.status = "empty" => results = <<>>
    /\ summary.status # "TypeError"

\* C9 witness: the summary of a session still empty after a failed run.
C9_Witness ==
    /\ calls > 0
    /\ results = <<>>
    /\ summary = [status |-> "empty"]

\* a step of showSummary: the runner stays idle and a report is there
SummaryStep == pc = "idle" /\ pc' = "idle" /\ summary' # NoSummary

\* C10: showSummary leaves results as it was, entry by entry, and a second
\* showSummary on the same session reports the same winners and the same
\* ratios as the first.
C10_SummaryReadsOnly ==
    [][SummaryStep =>
          /\ results' = results
          /\ summary # NoSummary => summary' = summary]_vars

\* C10 witness: a summary of two entries, the slower one first.
C10_Witness ==
    /\ summary.status = "compared"
    /\ Len(results) = 2
    /\ results[1].executionTime > results[2].executionTime
    /\ summary.fastest = 2

(* ---------------------------- claims on the driver --------------------- *)

\* C11: when exemploDeUso fails with an uncaught error, the error is logged
\* and the process ends with a non-zero exit status; when it does not fail,
\* the process ends normally, with status 0, after the summary was printed.
C11_ExitStatus ==
    exit.status = "exited" =>
        IF driver = "rejected"
        THEN exit.errorLogged /\ exit.code # 0
        ELSE /\ driver = "resolved"
             /\ exit.code = 0
             /\ ~exit.errorLogged
             /\ summary # NoSummary

\* the driver's second call, the 'POO' run, has been entered
PooEntered == calls = 2

C12_Ordered ==
    /\ ~interleaved
    /\ Len(outcomes) = (IF pc = "idle" THEN calls ELSE calls - 1)
    /\ Len(results) = Cardinality(Recorded)
    /\ calls >= 1 /\ ~PooEntered => name = "Estruturado"
    /\ PooEntered =>
          /\ name = "POO"
          /\ Len(outcomes) >= 1
          /\ driver \in {"await2", "resolved", "rejected"}
    /\ summary # NoSummary =>
          /\ pc = "idle"
          /\ Len(outcomes) = 2
          /\ driver = "resolved"
          /\ summary = Report(results)

\* C12: in exemploDeUso the 'Estruturado' run has returned (recorded or
\* skipped) before the 'POO' run is entered, at most one run is in progress
\* at any time so the two measurement windows cannot overlap, showSummary
\* runs only when both runs have returned, and once the summary exists no
\* step changes results or starts another run.
C12_PhasesStrictlyOrdered ==
    /\ [](C12_Ordered)
    /\ [][summary # NoSummary => results' = results /\ pc' = "idle"]_vars

\* C12 witness: the driver ran to its end with both runs recorded, in the
\* order of the calls, and the summary compared the two.
C12_Witness ==
    /\ exit.status = "exited"
    /\ driver = "resolved"
    /\ Len(results) = 2
    /\ results[1].name = "Estruturado"
    /\ results[2].name = "POO"
    /\ summary.status = "compared"

====
